---- MODULE Spec2Model ----
(***************************************************************************)
(* Model of week9/crc.py (modulo-2 long division, CRC sender and receiver, *)
(* the interactive demo with its bit-flip menu) and of                     *)
(* week9/leakyBucket.py (the leaky bucket simulation).                     *)
(*                                                                         *)
(* Bit strings are sequences of the characters "0" and "1"; offsets in the *)
(* variables are Python's 0-based offsets, sequence indices are 1-based.   *)
(***************************************************************************)
EXTENDS Integers, Sequences, FiniteSets, TLC

VARIABLES
    prog,            \* entry point running: "none", "demo", "divide", "receiver"
    pc,              \* position inside that entry point
    data_bits,       \* demo_interactive: data_bits
    generator_bits,  \* demo_interactive / check_crc_receiver: generator_bits
    crc,             \* demo_interactive: crc (remainder returned by the sender)
    transmitted,     \* demo_interactive: transmitted
    choice,          \* demo_interactive: choice ("1", "2", "3")
    pos_list,        \* demo_interactive: the position tokens typed by the user
    received,        \* demo_interactive: received / check_crc_receiver: received_bits
    ok,              \* check_crc_receiver: ok
    rem,             \* check_crc_receiver: remainder returned with ok
    err,             \* "none" or "ValueError" (the error outcome of a call)
    dividend,        \* long_division_show: dividend
    divisor,         \* long_division_show: divisor
    work,            \* long_division_show: work
    i,               \* long_division_show: next value of the loop variable i
    remainder,       \* long_division_show: remainder
    steps,           \* number of window steps (loop iterations) executed so far
    bucket_capacity, \* leaky_bucket: bucket_capacity
    output_rate,     \* leaky_bucket: output_rate
    incoming_packets,\* leaky_bucket: incoming_packets
    lbpc,            \* leaky_bucket: "idle", "ticks", "drain", "done"
    time,            \* leaky_bucket: time (0 before the first tick)
    stored,          \* leaky_bucket: stored
    dropped,         \* leaky_bucket: dropped of the last tick
    sent,            \* leaky_bucket: transmitted of the last tick or drain step
    total_arrived,   \* history: sum of the arrivals processed so far
    total_dropped,   \* history: sum of dropped over the ticks so far
    total_sent       \* history: sum of transmitted over the ticks and drain steps

crcvars == <<prog, pc, data_bits, generator_bits, crc, transmitted, choice,
             pos_list, received, ok, rem, err, dividend, divisor, work, i,
             remainder, steps>>
lbvars == <<bucket_capacity, output_rate, incoming_packets, lbpc, time, stored,
            dropped, sent, total_arrived, total_dropped, total_sent>>
vars == <<crcvars, lbvars>>

----------------------------------------------------------------------------
(* Bounds of the model *)

MaxData == 3
MaxGen == 4
MaxDividend == 5
MaxFlips == 2
MaxPos == 5
MaxCap == 3
MaxRate == 2
MaxPackets == 3
MaxTicks == 3

Min(a, b) == IF a < b THEN a ELSE b
Max(a, b) == IF a > b THEN a ELSE b

BitStrings(lo, hi) == UNION {[1..n -> {"0", "1"}] : n \in lo..hi}

\* a text with a character other than '0' and '1'
BadText == <<"1", "0", "2">>

----------------------------------------------------------------------------
(* crc.py: pure functions *)

\* validate_binary_str: TRUE when the call returns, FALSE when it raises
validate_binary_str(s) ==
    /\ s # <<>>
    /\ \A k \in 1..Len(s) : s[k] \in {"0", "1"}

xor_or(a, b) ==
    [k \in 1..Min(Len(a), Len(b)) |-> IF a[k] = "1" \/ b[k] = "1" THEN "1" ELSE "0"]

\* xor(a, b): zip stops at the shorter argument
xor(a, b) ==
    [k \in 1..Min(Len(a), Len(b)) |-> IF a[k] = b[k] THEN "0" ELSE "1"]

\* Python's s[lo:hi] for 0 <= lo
Slice(s, lo, hi) == SubSeq(s, lo + 1, Min(hi, Len(s)))

DivStep_always(w, j, d) ==
    LET n == Len(d)
        window == Slice(w, j, j + n)
    IN  Slice(w, 0, j) \o xor(window, d) \o Slice(w, j + n, Len(w))

\* one iteration of the loop of long_division_show at offset j
DivStep(w, j, d) ==
    LET n == Len(d)
        window == Slice(w, j, j + n)
    IN  IF window[1] = "1"
        THEN Slice(w, 0, j) \o xor(window, d) \o Slice(w, j + n, Len(w))
        ELSE w

\* number of iterations of range(len(dividend) - n + 1)
SweepLen(dd, d) == Max(Len(dd) - Len(d) + 1, 0)

Remainder_wide(w, n) ==
    IF n > 1 THEN SubSeq(w, Max(Len(w) - n, 0) + 1, Len(w)) ELSE <<"0">>

\* remainder = ''.join(work[-(n-1):]) if n > 1 else '0'
Remainder(w, n) ==
    IF n > 1 THEN SubSeq(w, Max(Len(w) - (n - 1), 0) + 1, Len(w)) ELSE <<"0">>

RECURSIVE Sweep(_, _, _)
Sweep(w, d, j) ==
    IF j >= SweepLen(w, d) THEN w ELSE Sweep(DivStep(w, j, d), d, j + 1)

\* long_division_show as a function of its arguments
long_division_show(dd, d) == Remainder(Sweep(dd, d, 0), Len(d))

Zeros(k) == [x \in 1..k |-> "0"]

\* default_generator of demo_interactive: x^16 + x^12 + x^5 + 1
default_generator ==
    <<"1","0","0","0","1","0","0","0","0","0","0","1","0","0","0","0","1">>

NoResult == <<>>

compute_crc_sender_padded(data, gen) ==
    IF ~validate_binary_str(data) \/ ~validate_binary_str(gen) \/ gen[1] # "1"
    THEN [err |-> "ValueError", remainder |-> NoResult, transmitted |-> NoResult,
          steps |-> 0]
    ELSE LET k == Len(gen) - 1
             augmented == data \o Zeros(k)
             r == long_division_show(augmented, gen)
         IN  [err |-> "none", remainder |-> r, transmitted |-> augmented,
              steps |-> SweepLen(augmented, gen)]

\* compute_crc_sender: the outcome, the returned pair and the window steps run
compute_crc_sender(data, gen) ==
    IF ~validate_binary_str(data) \/ ~validate_binary_str(gen) \/ gen[1] # "1"
    THEN [err |-> "ValueError", remainder |-> NoResult, transmitted |-> NoResult,
          steps |-> 0]
    ELSE LET k == Len(gen) - 1
             augmented == data \o Zeros(k)
             r == long_division_show(augmented, gen)
         IN  [err |-> "none", remainder |-> r, transmitted |-> data \o r,
              steps |-> SweepLen(augmented, gen)]

check_crc_receiver_any(bits, gen) ==
    IF ~validate_binary_str(bits) \/ ~validate_binary_str(gen) \/ gen[1] # "1"
    THEN [err |-> "ValueError", ok |-> FALSE, remainder |-> NoResult, steps |-> 0]
    ELSE LET r == long_division_show(bits, gen)
         IN  [err |-> "none", ok |-> \E k \in 1..Len(r) : r[k] = "0",
              remainder |-> r, steps |-> SweepLen(bits, gen)]

\* check_crc_receiver: the outcome, the returned pair and the window steps run
check_crc_receiver(bits, gen) ==
    IF ~validate_binary_str(bits) \/ ~validate_binary_str(gen) \/ gen[1] # "1"
    THEN [err |-> "ValueError", ok |-> FALSE, remainder |-> NoResult, steps |-> 0]
    ELSE LET r == long_division_show(bits, gen)
         IN  [err |-> "none", ok |-> \A k \in 1..Len(r) : r[k] = "0",
              remainder |-> r, steps |-> SweepLen(bits, gen)]

\* a typed position: int(pos) succeeds with val, or raises
IntTok(p) == [isInt |-> TRUE, val |-> p]
BadTok == [isInt |-> FALSE, val |-> 0]

Toggle(c) == IF c = "0" THEN "1" ELSE "0"

\* choice '2': flip one bit, or no flip on an invalid position
flip_one(t, tok) ==
    IF tok.isInt /\ 0 <= tok.val /\ tok.val < Len(t)
    THEN Slice(t, 0, tok.val) \o <<Toggle(t[tok.val + 1])>>
                               \o Slice(t, tok.val + 1, Len(t))
    ELSE t

flip_pos_wrap(changed, tok, n) ==
    IF tok.isInt /\ -n <= tok.val /\ tok.val < n
    THEN LET k == IF tok.val < 0 THEN tok.val + n + 1 ELSE tok.val + 1
         IN  [changed EXCEPT ![k] = Toggle(changed[k])]
    ELSE changed

\* choice '3': one iteration of the loop over pos_list
flip_pos(changed, tok, n) ==
    IF tok.isInt /\ 0 <= tok.val /\ tok.val < n
    THEN [changed EXCEPT ![tok.val + 1] = Toggle(changed[tok.val + 1])]
    ELSE changed

RECURSIVE flip_many(_, _, _)
flip_many(changed, toks, n) ==
    IF toks = <<>> THEN changed
    ELSE flip_many(flip_pos(changed, Head(toks), n), Tail(toks), n)

----------------------------------------------------------------------------
(* Inputs *)

DataInputs == BitStrings(0, MaxData) \cup {BadText}
\* an empty generator answer selects default_generator
GenInputs == BitStrings(0, MaxGen)
DividendInputs == BitStrings(1, MaxDividend)
DivisorInputs == BitStrings(1, MaxGen)
ReceivedInputs == BitStrings(0, MaxDividend) \cup {BadText}

OneTokens(t) == {IntTok(p) : p \in -1..Len(t)} \cup {BadTok}
ManyTokens(t) == {IntTok(p) : p \in -1..Min(Len(t), MaxPos)} \cup {BadTok}
TokenLists(t) == UNION {[1..n -> ManyTokens(t)] : n \in 0..MaxFlips}

----------------------------------------------------------------------------
(* crc.py: the state machine *)

Init ==
    /\ prog = "none" /\ pc = "start"
    /\ data_bits = <<>> /\ generator_bits = <<>>
    /\ crc = NoResult /\ transmitted = NoResult
    /\ choice = "" /\ pos_list = <<>> /\ received = <<>>
    /\ ok = FALSE /\ rem = NoResult /\ err = "none"
    /\ dividend = <<>> /\ divisor = <<>> /\ work = <<>> /\ i = 0
    /\ remainder = NoResult /\ steps = 0
    /\ bucket_capacity = 0 /\ output_rate = 0 /\ incoming_packets = <<>>
    /\ lbpc = "idle" /\ time = 0 /\ stored = 0 /\ dropped = 0 /\ sent = 0
    /\ total_arrived = 0 /\ total_dropped = 0 /\ total_sent = 0

divvars == <<dividend, divisor, work, i, remainder>>

\* demo_interactive up to the menu: read the inputs, run the sender
DemoSend ==
    /\ prog = "none"
    /\ \E d \in DataInputs, gen_in \in GenInputs :
         LET g == IF gen_in # <<>> THEN gen_in ELSE default_generator
             s == compute_crc_sender(d, g)
         IN  /\ prog' = "demo"
             /\ data_bits' = d
             /\ generator_bits' = g
             /\ err' = s.err
             /\ crc' = s.remainder
             /\ transmitted' = s.transmitted
             /\ steps' = s.steps
             /\ pc' = IF s.err = "none" THEN "menu" ELSE "input_error"
    /\ UNCHANGED <<choice, pos_list, received, ok, rem, divvars, lbvars>>

\* the rest of demo_interactive once received is known: run the receiver
DemoReceive(ch, toks, rcv) ==
    LET r == check_crc_receiver(rcv, generator_bits)
    IN  /\ choice' = ch
        /\ pos_list' = toks
        /\ received' = rcv
        /\ err' = r.err
        /\ ok' = r.ok
        /\ rem' = r.remainder
        /\ steps' = steps + r.steps
        /\ pc' = "done"
        /\ UNCHANGED <<prog, data_bits, generator_bits, crc, transmitted,
                       divvars, lbvars>>

\* choice '1' (or anything else): send as-is
DemoNoFlip ==
    /\ prog = "demo" /\ pc = "menu"
    /\ DemoReceive("1", <<>>, transmitted)

\* choice '2': flip one bit
DemoFlipOne ==
    /\ prog = "demo" /\ pc = "menu"
    /\ \E tok \in OneTokens(transmitted) :
         DemoReceive("2", <<tok>>, flip_one(transmitted, tok))

\* choice '3': flip the listed bits
DemoFlipMany ==
    /\ prog = "demo" /\ pc = "menu"
    /\ \E toks \in TokenLists(transmitted) :
         DemoReceive("3", toks, flip_many(transmitted, toks, Len(transmitted)))

\* a call of check_crc_receiver on its own
CallReceiver ==
    /\ prog = "none"
    /\ \E bits \in ReceivedInputs, g \in GenInputs :
         LET r == check_crc_receiver(bits, g)
         IN  /\ prog' = "receiver"
             /\ received' = bits
             /\ generator_bits' = g
             /\ err' = r.err
             /\ ok' = r.ok
             /\ rem' = r.remainder
             /\ steps' = r.steps
             /\ pc' = "done"
    /\ UNCHANGED <<data_bits, crc, transmitted, choice, pos_list, divvars, lbvars>>

\* a call of long_division_show on its own: n = len(divisor), work = list(dividend)
CallDivide ==
    /\ prog = "none"
    /\ \E dd \in DividendInputs, d \in DivisorInputs :
         /\ prog' = "divide"
         /\ dividend' = dd
         /\ divisor' = d
         /\ work' = dd
         /\ i' = 0
         /\ pc' = "sweep"
    /\ UNCHANGED <<data_bits, generator_bits, crc, transmitted, choice, pos_list,
                   received, ok, rem, err, remainder, steps, lbvars>>

\* one iteration of for i in range(len(dividend) - n + 1)
DivideStep ==
    /\ prog = "divide" /\ pc = "sweep"
    /\ i < SweepLen(dividend, divisor)
    /\ work' = DivStep(work, i, divisor)
    /\ i' = i + 1
    /\ steps' = steps + 1
    /\ UNCHANGED <<prog, pc, data_bits, generator_bits, crc, transmitted, choice,
                   pos_list, received, ok, rem, err, dividend, divisor, remainder,
                   lbvars>>

\* the loop is over: take the remainder and return it
DivideReturn ==
    /\ prog = "divide" /\ pc = "sweep"
    /\ i >= SweepLen(dividend, divisor)
    /\ remainder' = Remainder(work, Len(divisor))
    /\ pc' = "returned"
    /\ UNCHANGED <<prog, data_bits, generator_bits, crc, transmitted, choice,
                   pos_list, received, ok, rem, err, dividend, divisor, work, i,
                   steps, lbvars>>

Next ==
    \/ DemoSend
    \/ DemoNoFlip
    \/ DemoFlipOne
    \/ DemoFlipMany
    \/ CallReceiver
    \/ CallDivide
    \/ DivideStep
    \/ DivideReturn

Spec == Init /\ [][Next]_vars

----------------------------------------------------------------------------
(* leakyBucket.py *)

tick_noclamp(st, packets, cap, rate) ==
    LET over == packets + st > cap
        d == IF over THEN (packets + st) - cap ELSE 0
        s1 == st + packets
        t == Min(s1, rate)
    IN  [dropped |-> d, transmitted |-> t, stored |-> s1 - t]

\* the body of the for loop: overflow handling, then transmission
tick(st, packets, cap, rate) ==
    LET over == packets + st > cap
        d == IF over THEN (packets + st) - cap ELSE 0
        s1 == IF over THEN cap ELSE st + packets
        t == Min(s1, rate)
    IN  [dropped |-> d, transmitted |-> t, stored |-> s1 - t]

\* the body of the while loop that empties the bucket
drain(st, rate) ==
    LET t == Min(st, rate)
    IN  [transmitted |-> t, stored |-> st - t]

CapInputs == 0..MaxCap
RateInputs == 1..MaxRate
ArrivalInputs == UNION {[1..n -> 0..MaxPackets] : n \in 0..MaxTicks}

\* leaky_bucket is called: stored = 0
LBCall ==
    /\ lbpc = "idle"
    /\ \E cap \in CapInputs, rate \in RateInputs, inc \in ArrivalInputs :
         /\ bucket_capacity' = cap
         /\ output_rate' = rate
         /\ incoming_packets' = inc
         /\ lbpc' = IF inc = <<>> THEN "drain" ELSE "ticks"
    /\ stored' = 0
    /\ UNCHANGED <<time, dropped, sent, total_arrived, total_dropped, total_sent,
                   crcvars>>

\* one iteration of for time, packets in enumerate(incoming_packets, start=1)
LBTick ==
    /\ lbpc = "ticks"
    /\ time < Len(incoming_packets)
    /\ LET packets == incoming_packets[time + 1]
           r == tick(stored, packets, bucket_capacity, output_rate)
       IN  /\ time' = time + 1
           /\ dropped' = r.dropped
           /\ sent' = r.transmitted
           /\ stored' = r.stored
           /\ total_arrived' = total_arrived + packets
           /\ total_dropped' = total_dropped + r.dropped
           /\ total_sent' = total_sent + r.transmitted
    /\ lbpc' = IF time + 1 = Len(incoming_packets) THEN "drain" ELSE "ticks"
    /\ UNCHANGED <<bucket_capacity, output_rate, incoming_packets, crcvars>>

\* one iteration of while stored > 0
LBDrain ==
    /\ lbpc = "drain"
    /\ stored > 0
    /\ LET r == drain(stored, output_rate)
       IN  /\ time' = time + 1
           /\ sent' = r.transmitted
           /\ stored' = r.stored
           /\ total_sent' = total_sent + r.transmitted
    /\ UNCHANGED <<bucket_capacity, output_rate, incoming_packets, lbpc, dropped,
                   total_arrived, total_dropped, crcvars>>

\* the while loop ends; leaky_bucket returns
LBReturn ==
    /\ lbpc = "drain"
    /\ ~(stored > 0)
    /\ lbpc' = "done"
    /\ UNCHANGED <<bucket_capacity, output_rate, incoming_packets, time, stored,
                   dropped, sent, total_arrived, total_dropped, total_sent,
                   crcvars>>

LBNext ==
    \/ LBCall
    \/ LBTick
    \/ LBDrain
    \/ LBReturn

\* the interpreter runs the call to its end: a step that can be taken is taken
LBSpec == Init /\ [][LBNext]_vars /\ WF_vars(LBNext)

----------------------------------------------------------------------------
(* Properties of crc.py *)

AllZero(s) == \A k \in 1..Len(s) : s[k] = "0"
Ones(s) == Cardinality({k \in 1..Len(s) : s[k] = "1"})
Range(s) == {s[k] : k \in 1..Len(s)}

\* the demo ran the receiver on the frame it built
DemoDone == prog = "demo" /\ pc = "done"

\* the offsets 0..len-1 at which received differs from transmitted
Flipped == {k \in 0..(Len(transmitted) - 1) : received[k + 1] # transmitted[k + 1]}

\* the typed positions are integers, no two the same
IsOffsetSet(toks) ==
    /\ \A k \in 1..Len(toks) : toks[k].isInt
    /\ \A a, b \in 1..Len(toks) : a # b => toks[a] # toks[b]

InRange(toks, n) == \A k \in 1..Len(toks) : 0 <= toks[k].val /\ toks[k].val < n

\* the bit string of length n with '1' exactly at the typed offsets
ErrorPattern(toks, n) ==
    [k \in 1..n |-> IF IntTok(k - 1) \in Range(toks) THEN "1" ELSE "0"]

\* coefficient of x^e in the polynomial a bit string stands for (last bit: x^0)
Coef(s, e) == e >= 0 /\ e < Len(s) /\ s[Len(s) - e] = "1"

\* d = q*g XOR r over GF(2) for some quotient q, with r of len(g) - 1 bits
IsPolyRemainder(d, g, r) ==
    LET k == Max(Len(d) - Len(g) + 1, 0)
    IN  /\ Len(r) = Len(g) - 1
        /\ \E q \in BitStrings(k, k) :
             \A e \in 0..(Max(Len(d), Len(g)) - 1) :
               Coef(d, e) =
                 ((Cardinality({a \in 0..(k - 1) : Coef(q, a) /\ Coef(g, e - a)}) % 2 = 1)
                    # Coef(r, e))

\* C1: round trip. Whenever the demo sends the frame of compute_crc_sender
\* unchanged (any non-empty data, any generator with leading bit 1, the
\* one-bit generator "1" included), check_crc_receiver returns ok = True and
\* a remainder of zeros only.
C1_RoundTrip ==
    (DemoDone /\ choice = "1") => (err = "none" /\ ok = TRUE /\ AllZero(rem))

C1_Witness ==
    /\ DemoDone /\ choice = "1"
    /\ generator_bits = <<"1", "0", "1">>
    /\ data_bits = <<"1", "1", "0">>
    /\ Ones(crc) >= 1
    /\ ok = TRUE

\* C2: single-bit errors are detected. When the generator has length >= 2 and
\* at least two '1' bits and the received frame differs from the transmitted
\* frame in exactly one position, check_crc_receiver returns ok = False.
C2_SingleBitDetected ==
    (/\ DemoDone
     /\ Len(generator_bits) >= 2 /\ Ones(generator_bits) >= 2
     /\ Cardinality(Flipped) = 1)
    => ok = FALSE

C2_Witness ==
    /\ DemoDone /\ choice = "2"
    /\ generator_bits = <<"1", "1", "0">>
    /\ Flipped = {Len(transmitted) - 1}
    /\ ok = FALSE

\* C3: length of the frame. After compute_crc_sender succeeds, transmitted has
\* len(data) + (len(generator) - 1) bits, for every generator length >= 1.
C3_FrameLength ==
    (prog = "demo" /\ pc \in {"menu", "done"})
    => Len(transmitted) = Len(data_bits) + (Len(generator_bits) - 1)

\* C4: long_division_show rejects a divisor whose leading bit is not '1'
\* before any step: such a call performs no window step and returns no
\* remainder.
C4_DividerRejects ==
    (prog = "divide" /\ divisor[1] # "1") => (steps = 0 /\ pc # "returned")

\* C5: the divider computes the polynomial remainder. For a divisor with
\* leading bit 1 and length n >= 2 and a dividend of at least n - 1 bits, the
\* returned remainder r has n - 1 bits and dividend = q*divisor XOR r over
\* GF(2) for some q.
C5_PolyRemainder ==
    (/\ prog = "divide" /\ pc = "returned"
     /\ divisor[1] = "1" /\ Len(divisor) >= 2
     /\ Len(dividend) >= Len(divisor) - 1)
    => IsPolyRemainder(dividend, divisor, remainder)

C5_Witness ==
    /\ prog = "divide" /\ pc = "returned"
    /\ divisor = <<"1", "0", "1">>
    /\ dividend = <<"1", "1", "0", "1", "0">>
    /\ remainder = <<"0", "1">>

\* C6: the multi-position flip touches only the requested bits. For a set of
\* integer offsets, the result has the length of the frame, the bit at every
\* requested offset inside [0, len) is toggled, every other bit is unchanged,
\* and offsets outside the range are ignored (the call goes on to the receiver).
C6_FlipOnlyRequested ==
    (DemoDone /\ choice = "3" /\ IsOffsetSet(pos_list))
    => /\ Len(received) = Len(transmitted)
       /\ \A k \in 0..(Len(transmitted) - 1) :
            received[k + 1] = IF IntTok(k) \in Range(pos_list)
                              THEN Toggle(transmitted[k + 1])
                              ELSE transmitted[k + 1]

C6_Witness ==
    /\ DemoDone /\ choice = "3"
    /\ pos_list = <<IntTok(-1), IntTok(1)>>
    /\ Flipped = {1}

\* C7: width of the remainder. For a divisor with leading bit 1 and length
\* n >= 2 and every non-empty dividend, also one shorter than the divisor, the
\* remainder long_division_show returns, and the one check_crc_receiver
\* returns, has exactly n - 1 bits.
C7_RemainderWidth ==
    /\ (/\ prog = "divide" /\ pc = "returned"
        /\ divisor[1] = "1" /\ Len(divisor) >= 2)
       => Len(remainder) = Len(divisor) - 1
    /\ (/\ prog \in {"receiver", "demo"} /\ pc = "done" /\ err = "none"
        /\ Len(generator_bits) >= 2)
       => Len(rem) = Len(generator_bits) - 1

\* C8: the sweep. With a divisor whose leading bit is 1, after the step at
\* offset i - 1 the bits of work at offsets 0..i-1 are '0' and the bits at
\* offsets >= i - 1 + n are those of the dividend; so when the sweep over a
\* dividend of at least n bits is over, every bit of work outside the last
\* n - 1 is '0'.
C8_SweepInvariant ==
    (prog = "divide" /\ divisor[1] = "1" /\ i >= 1)
    => /\ \A j \in 0..(i - 1) : work[j + 1] = "0"
       /\ \A j \in (i - 1 + Len(divisor))..(Len(work) - 1) :
            work[j + 1] = dividend[j + 1]
       /\ Len(work) = Len(dividend)
       /\ pc = "returned" =>
            \A j \in 0..(Len(work) - Len(divisor)) : work[j + 1] = "0"

C8_Witness ==
    /\ prog = "divide" /\ pc = "sweep"
    /\ divisor = <<"1", "1", "1">>
    /\ dividend = <<"1", "0", "1", "1", "1">>
    /\ i = 2
    /\ work = <<"0", "0", "1", "0", "1">>

\* C9: the check is linear. For a generator of length >= 2, a frame from
\* compute_crc_sender and a set of in-range offsets flipped in it, the
\* remainder of check_crc_receiver is long_division_show of the error pattern
\* (the bit string with '1' exactly at those offsets), and the frame is
\* reported clean exactly when that remainder is all zeros.
C9_Linearity ==
    (/\ DemoDone /\ Len(generator_bits) >= 2
     /\ IsOffsetSet(pos_list) /\ InRange(pos_list, Len(transmitted)))
    => LET e == ErrorPattern(pos_list, Len(transmitted))
       IN  /\ rem = long_division_show(e, generator_bits)
           /\ ok = AllZero(long_division_show(e, generator_bits))

C9_Witness ==
    /\ DemoDone /\ choice = "3"
    /\ generator_bits = <<"1", "0", "1">>
    /\ data_bits = <<"1", "1", "0">>
    /\ pos_list = <<IntTok(3), IntTok(1)>>
    /\ ok = TRUE

----------------------------------------------------------------------------
(* Properties of leakyBucket.py *)

RECURSIVE SumSeq(_)
SumSeq(s) == IF s = <<>> THEN 0 ELSE Head(s) + SumSeq(Tail(s))

\* after every tick and drain step: the bucket is within its capacity and
\* every arrival so far is dropped, transmitted or stored
LBConserved ==
    /\ 0 <= stored /\ stored <= bucket_capacity
    /\ total_arrived = SumSeq(SubSeq(incoming_packets, 1, Min(time, Len(incoming_packets))))
    /\ total_arrived = total_dropped + total_sent + stored

\* on return: the bucket is empty and every arrival was dropped or transmitted
LBReturned ==
    lbpc = "done" =>
      /\ stored = 0
      /\ SumSeq(incoming_packets) = total_dropped + total_sent

\* C10: packet conservation. For capacity >= 0, rate >= 1 and non-negative
\* arrivals: after every tick 0 <= stored <= bucket_capacity and arrivals so
\* far = dropped + transmitted + stored; the drain loop ends with stored = 0,
\* and on return total arrivals = total dropped + total transmitted.
C10_Conservation ==
    /\ [](LBConserved /\ LBReturned)
    /\ <>(lbpc = "done")

C10_Witness ==
    /\ lbpc = "done"
    /\ bucket_capacity = 2 /\ output_rate = 1
    /\ incoming_packets = <<3, 2>>
    /\ total_dropped = 2 /\ total_sent = 3
    /\ time = 3

====
